---- MODULE Spec2Model ----
(***************************************************************************)
(* A model of the deepyai backend (src/backend/engine.py, main.py,         *)
(* schemas.py): the chunker, the ingestion paths and the HTTP handlers.    *)
(*                                                                         *)
(* Text is a sequence of characters.  Positions are 0-based as in Python;  *)
(* the operators below translate them to the 1-based sequences of TLA+.    *)
(***************************************************************************)
EXTENDS Integers, Sequences, FiniteSets, TLC

VARIABLES
    \* _split_into_chunks, one loop iteration per step
    text,        \* the argument text
    chunk_size,  \* the argument chunk_size
    overlap,     \* the argument overlap
    start,       \* the local start
    chunks,      \* the local list chunks (before the final filter)
    windows,     \* history of the locals <<start, end>> of each iteration
    result,      \* the returned list
    pc,          \* "loop" while the while-loop runs, "done" after the return
    \* ingestion into the vector store
    store,       \* the collection: a function from id to its document and metadata
    last,        \* what the latest ingest_file call was given and what it did
    avail,       \* which files a caller may hand to ingest_file: "any", "few", "none"
    budget,      \* ingest_file calls still to come
    \* the HTTP handlers of main.py
    request,      \* the latest request
    response,     \* the response to it
    engine_calls, \* calls of engine methods made by the handlers so far
    handled,      \* requests handled so far
    \* POST /ingest-files
    handlers,     \* the running ingest_files handlers: their files and locals
    temp_dir,     \* the files in /tmp/deepy_uploads: a function from path to bytes
    ingested,     \* history of the files the handlers have dealt with, in order
    \* DeepyEngine.chat
    chat_pc,      \* where the chat call is: "search", "generate", "format", "returned", "raised"
    calls,        \* history of the calls chat made to the collection and to the LLM
    sources,      \* the local sources of chat
    reply,        \* what chat returned
    \* DeepyEngine.upload_to_file_search
    poll_pc,       \* where the call is: "upload", "loop", "returned", "raised"
    operation,     \* the local operation: the operation object last received
    polls,         \* iterations of the polling loop so far, counted up to MaxPolls
    remote,        \* the operation at the external service: "pending" or "done"
    network,       \* "up": the service answers every call; "flaky": a call may raise
    upload_config, \* the local config
    upload_result  \* what the call returned

chunkVars == <<text, chunk_size, overlap, start, chunks, windows, result, pc>>

ingestVars == <<store, last, avail, budget>>

apiVars == <<request, response, engine_calls, handled>>

uploadVars == <<handlers, temp_dir, ingested>>

chatVars == <<chat_pc, calls, sources, reply>>

pollVars == <<poll_pc, operation, polls, remote, network, upload_config, upload_result>>

vars == <<text, chunk_size, overlap, start, chunks, windows, result, pc,
          store, last, avail, budget,
          request, response, engine_calls, handled,
          handlers, temp_dir, ingested,
          chat_pc, calls, sources, reply,
          poll_pc, operation, polls, remote, network, upload_config, upload_result>>

\* the upload part of the state while no /ingest-files request is followed
UploadIdle ==
    /\ handlers = <<>>
    /\ temp_dir = <<>>
    /\ ingested = <<>>

\* the chat part of the state while no chat call is followed
ChatIdle ==
    /\ chat_pc = "idle"
    /\ calls = <<>>
    /\ sources = <<>>
    /\ reply = [answer |-> "", sources |-> <<>>]

\* the polling part of the state while no upload_to_file_search call is followed
PollIdle ==
    /\ poll_pc = "idle"
    /\ operation = [name |-> "", done |-> FALSE]
    /\ polls = 0
    /\ remote = "pending"
    /\ network = "up"
    /\ upload_config = "{}"
    /\ upload_result = [status |-> "", operation_name |-> ""]

\* the HTTP part of the state while no request is followed
ApiIdle ==
    /\ request = [endpoint |-> "none"]
    /\ response = [status |-> 0]
    /\ engine_calls = 0
    /\ handled = 0

\* no ingest_file call has been made
NoCall ==
    [path |-> <<>>, content |-> <<>>, prepared |-> <<>>, adds |-> <<>>,
     failed |-> 0, outcome |-> "none", returned |-> {}, before |-> <<>>]

\* the ingestion part of the state while only the chunker runs
IngestIdle ==
    /\ store = <<>>
    /\ last = NoCall
    /\ avail = "none"
    /\ budget = 0

\* the chunker part of the state while no _split_into_chunks call is followed
ChunkIdle ==
    /\ text = <<>>
    /\ chunk_size = 1
    /\ overlap = 0
    /\ start = 0
    /\ chunks = <<>>
    /\ windows = <<>>
    /\ result = <<>>
    /\ pc = "idle"

----------------------------------------------------------------------------
(* Bounds of the model *)

\* longest text given to the chunker
MaxLen == 6
\* largest chunk_size given to the chunker
MaxChunk == 5
\* iterations of the while-loop the model follows; a run whose start
\* increases on every iteration needs at most Len(text) <= MaxLen of them
MaxIter == 7

----------------------------------------------------------------------------
(* Characters and Python's str operations *)

NL == "\n"
SP == " "
\* a character that is not whitespace
CH == "a"

Whitespace == {NL, SP}

Min(a, b) == IF a < b THEN a ELSE b
Max(a, b) == IF a > b THEN a ELSE b

Range(s) == {s[i] : i \in 1..Len(s)}

\* the sequences over S of length at most n
SeqsUpTo(S, n) == UNION {[1..k -> S] : k \in 0..n}

\* Python's clamping of one slice index i for a string of length n
SliceIndex(i, n) == IF i < 0 THEN Max(n + i, 0) ELSE Min(i, n)

\* s[i:j]
PySlice(s, i, j) ==
    SubSeq(s, SliceIndex(i, Len(s)) + 1, SliceIndex(j, Len(s)))

\* s.rfind(c): the 0-based index of the last c in s, or -1
RFind(s, c) ==
    LET hits == {i \in 1..Len(s) : s[i] = c}
    IN  IF hits = {} THEN -1
        ELSE (CHOOSE i \in hits : \A j \in hits : j <= i) - 1

\* 1-based index of the first and of the last non-whitespace character of s
\* (Len(s) + 1 and 0 when there is none)
FirstInk(s) ==
    LET ink == {i \in 1..Len(s) : s[i] \notin Whitespace}
    IN  IF ink = {} THEN Len(s) + 1
        ELSE CHOOSE i \in ink : \A j \in ink : i <= j

LastInk(s) ==
    LET ink == {i \in 1..Len(s) : s[i] \notin Whitespace}
    IN  IF ink = {} THEN 0
        ELSE CHOOSE i \in ink : \A j \in ink : j <= i

\* s.strip()
Strip(s) == SubSeq(s, FirstInk(s), LastInk(s))

----------------------------------------------------------------------------
(* DeepyEngine._split_into_chunks *)

\* variant of NextStart that leaves a gap after every window
NextStart_gap(end, ov) == end + 1

\* variant of NextStart that starts the next window where the last one ended
NextStart_noOverlap(end, ov) == end

\* start = end - overlap
NextStart(end, ov) == end - ov

\* variant of BreakAtNewline that also cuts at a newline on the midpoint
BreakAtNewline_ge(t, st, cs) ==
    /\ st + cs < Len(t)
    /\ RFind(PySlice(t, st, st + cs), NL) >= cs \div 2

\* variant of BreakAtNewline that cuts at any newline after the first character
BreakAtNewline_any(t, st, cs) ==
    /\ st + cs < Len(t)
    /\ RFind(PySlice(t, st, st + cs), NL) > 0

\* the condition under which the candidate is cut at its last newline
BreakAtNewline(t, st, cs) ==
    /\ st + cs < Len(t)
    /\ RFind(PySlice(t, st, st + cs), NL) > cs \div 2

\* the local end after the newline adjustment
WindowEnd(t, st, cs) ==
    IF BreakAtNewline(t, st, cs)
    THEN st + RFind(PySlice(t, st, st + cs), NL)
    ELSE st + cs

\* the local chunk after the newline adjustment, before strip()
WindowChunk(t, st, cs) ==
    LET chunk == PySlice(t, st, st + cs)
    IN  IF BreakAtNewline(t, st, cs)
        THEN PySlice(chunk, 0, RFind(chunk, NL))
        ELSE chunk

\* return [c for c in chunks if c]
NonEmpty(cs) == SelectSeq(cs, LAMBDA c : c # <<>>)

\* one iteration of the while-loop
LoopStep ==
    /\ pc = "loop"
    /\ start < Len(text)
    /\ Len(chunks) < MaxIter
    /\ chunks' = Append(chunks, Strip(WindowChunk(text, start, chunk_size)))
    /\ windows' = Append(windows, <<start, WindowEnd(text, start, chunk_size)>>)
    /\ start' = NextStart(WindowEnd(text, start, chunk_size), overlap)
    /\ UNCHANGED <<text, chunk_size, overlap, result, pc>>
    /\ UNCHANGED ingestVars
    /\ UNCHANGED apiVars
    /\ UNCHANGED uploadVars
    /\ UNCHANGED chatVars
    /\ UNCHANGED pollVars

\* the loop condition fails: the filtered list is returned
LoopExit ==
    /\ pc = "loop"
    /\ ~(start < Len(text))
    /\ result' = NonEmpty(chunks)
    /\ pc' = "done"
    /\ UNCHANGED <<text, chunk_size, overlap, start, chunks, windows>>
    /\ UNCHANGED ingestVars
    /\ UNCHANGED apiVars
    /\ UNCHANGED uploadVars
    /\ UNCHANGED chatVars
    /\ UNCHANGED pollVars

\* a call with any text and any chunk_size > 0, 0 <= overlap < chunk_size
InitChunk ==
    /\ text \in SeqsUpTo({CH, SP, NL}, MaxLen)
    /\ chunk_size \in 1..MaxChunk
    /\ overlap \in 0..(chunk_size - 1)
    /\ start = 0
    /\ chunks = <<>>
    /\ windows = <<>>
    /\ result = <<>>
    /\ pc = "loop"
    /\ IngestIdle
    /\ ApiIdle
    /\ UploadIdle
    /\ ChatIdle
    /\ PollIdle

NextChunk == LoopStep \/ LoopExit

SpecChunk == InitChunk /\ [][NextChunk]_vars

----------------------------------------------------------------------------
(* Claims about _split_into_chunks *)

\* C1: a text shorter than chunk_size is returned as exactly one chunk, the
\* trimmed text, or as no chunk when it is all whitespace.
C1_ShortTextOneChunk ==
    (pc = "done" /\ Len(text) < chunk_size) =>
        result = IF Strip(text) = <<>> THEN <<>> ELSE <<Strip(text)>>

\* C2: every loop iteration strictly increases start, so the loop terminates.
C2_StartIncreases ==
    [][Len(chunks') > Len(chunks) => start' > start]_vars

\* the part of the text that iteration k put into its chunk, as 1-based
\* positions lo..hi of the text (empty when the chunk is empty)
ChunkLo(k) ==
    SliceIndex(windows[k][1], Len(text))
        + FirstInk(WindowChunk(text, windows[k][1], chunk_size))

ChunkHi(k) ==
    SliceIndex(windows[k][1], Len(text))
        + LastInk(WindowChunk(text, windows[k][1], chunk_size))

\* C3: when the loop has terminated the windows cover the text without gaps:
\* the first starts at 0, each next one starts at or before the end of the
\* one before, the last one reaches the end of the text, and every character
\* that is not whitespace lies in a returned chunk.
C3_WindowsCover ==
    pc = "done" =>
        /\ Len(text) > 0 => (windows # <<>> /\ windows[1][1] = 0)
        /\ \A k \in 2..Len(windows) : windows[k][1] <= windows[k - 1][2]
        /\ windows # <<>> => windows[Len(windows)][2] >= Len(text)
        /\ \A p \in 1..Len(text) :
              text[p] \notin Whitespace =>
                \E k \in 1..Len(windows) :
                    /\ ChunkLo(k) <= p /\ p <= ChunkHi(k)
                    /\ chunks[k] = SubSeq(text, ChunkLo(k), ChunkHi(k))
                    /\ \E r \in 1..Len(result) : result[r] = chunks[k]

\* a terminated run of several windows, one of them cut at a newline
C3_Witness ==
    /\ pc = "done"
    /\ Len(windows) >= 3
    /\ \E k \in 1..Len(windows) :
          windows[k][2] - windows[k][1] < chunk_size
    /\ Len(result) >= 2

\* the candidate window of iteration k, text[start : start + chunk_size],
\* and the offset of its last newline (-1 when it has none)
Candidate(k) == PySlice(text, windows[k][1], windows[k][1] + chunk_size)

LastNewline(k) == RFind(Candidate(k), NL)

\* iteration k's candidate stops short of the end of the text
ShortOfEnd(k) == windows[k][1] + chunk_size < Len(text)

\* iteration k ended its window at the newline at offset p and kept the
\* characters before it
CutAt(k, p) ==
    /\ windows[k][2] = windows[k][1] + p
    /\ chunks[k] = Strip(PySlice(Candidate(k), 0, p))

\* iteration k kept the whole candidate
KeptWhole(k) ==
    /\ windows[k][2] = windows[k][1] + chunk_size
    /\ chunks[k] = Strip(Candidate(k))

\* C13 as stated: a candidate that stops short of the end of the text and
\* whose last newline is at offset p >= chunk_size // 2 is cut at that
\* newline and the window ends at start + p; with no newline, or with
\* p < chunk_size // 2, the window keeps its full chunk_size length.
C13_CutAtOrPastMidpoint ==
    \A k \in 1..Len(windows) :
        /\ (ShortOfEnd(k) /\ LastNewline(k) >= chunk_size \div 2)
               => CutAt(k, LastNewline(k))
        /\ LastNewline(k) < chunk_size \div 2 => KeptWhole(k)

\* C13, amended: the cut happens only for p > chunk_size // 2; a candidate
\* whose last newline is at or before chunk_size // 2, or which reaches the
\* end of the text, is kept whole.
C13_CutPastMidpoint ==
    \A k \in 1..Len(windows) :
        IF ShortOfEnd(k) /\ LastNewline(k) > chunk_size \div 2
        THEN CutAt(k, LastNewline(k))
        ELSE KeptWhole(k)

\* a finished run with one window cut at a newline past the midpoint and one
\* kept whole although its last newline is exactly on the midpoint
C13_Witness ==
    /\ pc = "done"
    /\ \E k \in 1..Len(windows) :
          /\ ShortOfEnd(k)
          /\ LastNewline(k) > chunk_size \div 2
          /\ windows[k][2] - windows[k][1] = LastNewline(k)
    /\ \E k \in 1..Len(windows) :
          /\ ShortOfEnd(k)
          /\ LastNewline(k) = chunk_size \div 2
          /\ windows[k][2] - windows[k][1] = chunk_size

\* a text without newline or other whitespace
Solid(t) == \A i \in 1..Len(t) : t[i] \notin Whitespace

\* every window after the first starts overlap characters before the end of
\* the one before
StartsOverlapBack ==
    \A k \in 2..Len(windows) : windows[k][1] = windows[k - 1][2] - overlap

\* C14 as stated: each window starts overlap characters before the end of
\* the one before, and a text without whitespace of length L with
\* chunk_size <= L <= 2 * (chunk_size - overlap) is returned as exactly the
\* two chunks text[0 : chunk_size] and text[chunk_size - overlap : L].
C14_TwoChunks ==
    /\ StartsOverlapBack
    /\ (/\ pc = "done"
        /\ Solid(text)
        /\ chunk_size <= Len(text)
        /\ Len(text) <= 2 * (chunk_size - overlap))
         => result = << PySlice(text, 0, chunk_size),
                        PySlice(text, chunk_size - overlap, Len(text)) >>

\* C14, amended: the same for L > chunk_size - overlap, which leaves out the
\* one case overlap = 0 and L = chunk_size, where the second substring is
\* empty.
C14_TwoChunksSecondNonEmpty ==
    /\ StartsOverlapBack
    /\ (/\ pc = "done"
        /\ Solid(text)
        /\ chunk_size <= Len(text)
        /\ Len(text) <= 2 * (chunk_size - overlap)
        /\ Len(text) > chunk_size - overlap)
         => result = << PySlice(text, 0, chunk_size),
                        PySlice(text, chunk_size - overlap, Len(text)) >>

\* a finished run on such a text with a positive overlap that returned two
\* chunks sharing overlap characters
C14_Witness ==
    /\ pc = "done"
    /\ Solid(text)
    /\ overlap > 0
    /\ chunk_size < Len(text)
    /\ Len(text) <= 2 * (chunk_size - overlap)
    /\ Len(result) = 2
    /\ Len(result[1]) + Len(result[2]) = Len(text) + overlap

\* the least advance of start in one iteration when overlap is at most
\* chunk_size // 2: a cut window is longer than chunk_size // 2
LeastAdvance == Min(chunk_size \div 2 + 1, chunk_size) - overlap

\* C17: whenever overlap <= chunk_size // 2 every iteration advances start
\* by at least LeastAdvance >= 1, cut at a newline or not, so the loop makes
\* at most Len(text) iterations and the call returns.
C17_AdvancesWithSmallOverlap ==
    overlap <= chunk_size \div 2 =>
        /\ LeastAdvance >= 1
        /\ \A k \in 1..Len(windows) :
              (IF k < Len(windows) THEN windows[k + 1][1] ELSE start)
                  >= windows[k][1] + LeastAdvance
        /\ Len(windows) <= Len(text)
        /\ (pc = "loop" /\ start < Len(text)) => Len(chunks) < MaxIter

\* a finished run with overlap <= chunk_size // 2, a positive overlap, a
\* window cut at a newline and an advance of exactly LeastAdvance
C17_Witness ==
    /\ pc = "done"
    /\ overlap > 0
    /\ overlap <= chunk_size \div 2
    /\ Len(windows) >= 3
    /\ \E k \in 1..(Len(windows) - 1) :
          /\ windows[k][2] - windows[k][1] < chunk_size
          /\ windows[k + 1][1] = windows[k][1] + LeastAdvance

----------------------------------------------------------------------------
(* More of Python's str operations.  The literals "FILE:" and             *)
(* "================" are one token each: neither overlaps itself, so a   *)
(* text has one reading as tokens as long as it holds no lone "=".        *)

FILE == "FILE:"
SEP == "================"

\* s.split(sep), sep one token
RECURSIVE SplitOn(_, _)
SplitOn(s, sep) ==
    LET hits == {i \in 1..Len(s) : s[i] = sep}
    IN  IF hits = {} THEN <<s>>
        ELSE LET i == CHOOSE h \in hits : \A j \in hits : h <= j
             IN  <<SubSeq(s, 1, i - 1)>> \o SplitOn(SubSeq(s, i + 1, Len(s)), sep)

\* sep.join(parts)
RECURSIVE Join(_, _)
Join(parts, sep) ==
    IF parts = <<>> THEN <<>>
    ELSE IF Len(parts) = 1 THEN parts[1]
    ELSE parts[1] \o <<sep>> \o Join(Tail(parts), sep)

\* s.replace(tok, by): every occurrence of tok, left to right
RECURSIVE Replace(_, _, _)
Replace(s, tok, by) ==
    IF s = <<>> THEN <<>>
    ELSE (IF Head(s) = tok THEN by ELSE <<Head(s)>>) \o Replace(Tail(s), tok, by)

\* s.startswith(tok)
StartsWith(s, tok) == Len(s) > 0 /\ s[1] = tok

Digit == <<"0", "1", "2", "3", "4", "5", "6", "7", "8", "9">>

\* str(i) of an integer i >= 0
RECURSIVE Str(_)
Str(i) == IF i < 10 THEN <<Digit[i + 1]>> ELSE Str(i \div 10) \o <<Digit[(i % 10) + 1]>>

\* os.path.basename(path)
Basename(path) ==
    LET parts == SplitOn(path, "/") IN parts[Len(parts)]

----------------------------------------------------------------------------
(* DeepyEngine._split_into_chunks as the ingestion paths call it *)

\* the while-loop from a given start: the list chunks it builds
RECURSIVE SplitLoop(_, _, _, _)
SplitLoop(t, st, cs, ov) ==
    IF st < Len(t)
    THEN <<Strip(WindowChunk(t, st, cs))>>
            \o SplitLoop(t, NextStart(WindowEnd(t, st, cs), ov), cs, ov)
    ELSE <<>>

SplitIntoChunks(t, cs, ov) == NonEmpty(SplitLoop(t, 0, cs, ov))

\* chunk_size and overlap as both ingestion paths pass them (3000 and 300 in
\* the source), and batch_size (100 in the source), scaled down so that texts
\* of a few characters make several chunks and several batches
ChunkSize == 4
Overlap == 1
BatchSize == 2

----------------------------------------------------------------------------
(* DeepyEngine._ingest_awesome_format and _ingest_single_file *)

\* variant of FirstIndex that numbers chunks on from the collection's size
FirstIndex_count == Cardinality(DOMAIN store)

\* enumerate(chunks) counts from 0
FirstIndex == 0

\* lines = file_block.strip().split('\n')
BlockLines(block) == SplitOn(Strip(block), NL)

\* variant of BlockSkipped that also skips a header with one line of text
BlockSkipped_lt3(block) ==
    \/ Strip(block) = <<>>
    \/ Len(BlockLines(block)) < 3

\* the two continue statements of the loop over the blocks
BlockSkipped(block) ==
    \/ Strip(block) = <<>>
    \/ Len(BlockLines(block)) < 2

\* file_name, for the block at position idx (0-based) of the split
FileName(idx, block) ==
    LET file_header == Strip(BlockLines(block)[1])
    IN  IF StartsWith(file_header, FILE)
        THEN Strip(Replace(file_header, FILE, <<>>))
        ELSE <<"section", "_">> \o Str(idx)

\* file_content = '\n'.join(lines[1:])
FileContent(block) == Join(Tail(BlockLines(block)), NL)

\* doc_id of chunk i of a bundle's logical document, and of a single file
AwesomeDocId(file_name, i) == Replace(file_name, "/", <<"_">>) \o <<"_">> \o Str(i)

SingleDocId(base, i) == Replace(base, ".", <<"_">>) \o <<"_">> \o Str(i)

\* the records the inner loop appends for one block that is not skipped
BlockRecords(idx, block, source_path) ==
    LET file_name == FileName(idx, block)
        cs == SplitIntoChunks(FileContent(block), ChunkSize, Overlap)
    IN  [k \in 1..Len(cs) |->
            [id |-> AwesomeDocId(file_name, FirstIndex + k - 1),
             document |-> cs[k],
             metadata |-> [source |-> file_name,
                           original_file |-> Basename(source_path),
                           chunk_id |-> FirstIndex + k - 1,
                           total_chunks |-> Len(cs)]]]

\* all_ids, all_documents and all_metadatas after the loop over the blocks,
\* as one list of records (the three lists are appended to together)
RECURSIVE AwesomeFrom(_, _, _)
AwesomeFrom(files, idx, source_path) ==
    IF idx >= Len(files) THEN <<>>
    ELSE (IF BlockSkipped(files[idx + 1]) THEN <<>>
          ELSE BlockRecords(idx, files[idx + 1], source_path))
         \o AwesomeFrom(files, idx + 1, source_path)

AwesomeRecords(content, source_path) ==
    AwesomeFrom(SplitOn(content, SEP), 0, source_path)

\* ids, documents and metadatas of _ingest_single_file
SingleRecords(content, file_path) ==
    LET cs == SplitIntoChunks(content, ChunkSize, Overlap)
    IN  [k \in 1..Len(cs) |->
            [id |-> SingleDocId(Basename(file_path), FirstIndex + k - 1),
             document |-> cs[k],
             metadata |-> [source |-> Basename(file_path),
                           chunk_id |-> FirstIndex + k - 1,
                           total_chunks |-> Len(cs)]]]

\* the add calls of the batch loop: for i in range(0, len, batch_size)
AwesomeAdds(records) ==
    LET n == Cardinality({i \in 0..(Len(records) - 1) : i % BatchSize = 0})
    IN  [j \in 1..n |->
            PySlice(records, (j - 1) * BatchSize, (j - 1) * BatchSize + BatchSize)]

\* the one add call of _ingest_single_file, made if documents is not empty
SingleAdds(records) == IF records # <<>> THEN <<records>> ELSE <<>>

\* ingest_file's test for the bundle format
IsAwesome(content) == SEP \in Range(content)

\* the records ingest_file prepares and the add calls it is going to make
Prepared(path, content) ==
    IF IsAwesome(content) THEN AwesomeRecords(content, path)
    ELSE SingleRecords(content, path)

PlannedAdds(content, records) ==
    IF IsAwesome(content) THEN AwesomeAdds(records) ELSE SingleAdds(records)

----------------------------------------------------------------------------
(* The vector store: collection.add with the overwrite-by-id semantics the *)
(* specification gives it; one add call succeeds or fails as a whole       *)

StoreAdd(st, batch) ==
    LET ids == {batch[k].id : k \in 1..Len(batch)}
        lastOf(i) == CHOOSE k \in 1..Len(batch) :
                        /\ batch[k].id = i
                        /\ \A m \in (k + 1)..Len(batch) : batch[m].id # i
    IN  [i \in (DOMAIN st) \cup ids |->
            IF i \in ids
            THEN [document |-> batch[lastOf(i)].document,
                  metadata |-> batch[lastOf(i)].metadata]
            ELSE st[i]]

RECURSIVE StoreAddAll(_, _)
StoreAddAll(st, batches) ==
    IF batches = <<>> THEN st
    ELSE StoreAddAll(StoreAdd(st, Head(batches)), Tail(batches))

\* variant of AddsMade that goes on with the later batches after a failure
AddsMade_all(planned, failAt) == planned

\* the add calls made when the failAt-th add raises (0: none raises): the
\* exception leaves the loop and the function
AddsMade(planned, failAt) ==
    IF failAt = 0 THEN planned ELSE SubSeq(planned, 1, failAt)

\* the add calls among those made that did not raise
AddsLanded(made, failAt) ==
    IF failAt = 0 THEN made
    ELSE SubSeq(made, 1, failAt - 1) \o SubSeq(made, failAt + 1, Len(made))

\* ingest_file(path) on a file holding content; any one of its add calls
\* may raise (failAt names it, 0 when none does)
IngestFile(path, content) ==
    LET prepared == Prepared(path, content)
        planned == PlannedAdds(content, prepared)
    IN  /\ budget > 0
        /\ \E failAt \in 0..Len(planned) :
              LET made == AddsMade(planned, failAt)
              IN  /\ store' = StoreAddAll(store, AddsLanded(made, failAt))
                  /\ last' = [path |-> path, content |-> content,
                              prepared |-> prepared,
                              adds |-> made, failed |-> failAt,
                              outcome |-> IF failAt = 0 THEN "returned" ELSE "raised",
                              returned |-> IF failAt = 0 THEN {Len(prepared)} ELSE {},
                              before |-> store]
        /\ budget' = budget - 1
        /\ UNCHANGED avail
        /\ UNCHANGED chunkVars
        /\ UNCHANGED apiVars
        /\ UNCHANGED uploadVars
        /\ UNCHANGED chatVars
        /\ UNCHANGED pollVars

----------------------------------------------------------------------------
(* The files of the model *)

\* blocks per bundle
MaxBlocks == 3
\* characters of a file that is not a bundle
MaxDocLen == 10
\* ingest_file calls on one collection
MaxCalls == 2

Repeat(c, n) == [i \in 1..n |-> c]

\* the blocks bundles are made of: empty, blank, header only, with and
\* without a FILE: header, a second FILE: in the header, names that differ
\* in "/" and "_" only, a text of several chunks
Blocks ==
    { <<>>,
      <<NL, SP, NL>>,
      <<NL, FILE, SP, "a", NL>>,
      <<NL, FILE, SP, "a", "/", "b", NL>> \o Repeat("x", ChunkSize + 2) \o <<NL>>,
      <<NL, FILE, SP, "a", "_", "b", NL, "y", NL>>,
      <<NL, "x", NL, "y", NL>>,
      <<SP, FILE, "a", FILE, "b", NL, "x">> }

Bundles ==
    {Join(bs, SEP) : bs \in {b \in SeqsUpTo(Blocks, MaxBlocks) : Len(b) >= 2}}

Documents ==
    {Repeat(CH, n) : n \in 0..MaxDocLen}
        \cup {<<SP, NL>>, <<CH, NL, CH, CH, NL, CH, CH, CH>>}

Paths == {<<"tmp", "/", "a", ".", "b">>, <<"tmp", "/", "a", "_", "b">>}

AllFiles == [path : Paths, content : Bundles \cup Documents]

\* the files ingested when one collection takes several calls
FewFiles ==
    [path : Paths,
     content : { Repeat(CH, MaxDocLen), Repeat(CH, 2), <<>>,
                 Join(<<<<>>, <<NL, FILE, SP, "a", NL, "x", NL>>,
                        <<NL, FILE, SP, "a", NL>> \o Repeat("x", ChunkSize + 2)>>, SEP),
                 Join(<<<<>>, <<NL, FILE, SP, "a", NL, "x", NL>>>>, SEP) }]

FilesAt(which) ==
    IF which = "any" THEN AllFiles
    ELSE IF which = "few" THEN FewFiles
    ELSE {}

\* a caller ingests one of the files at hand
Ingest ==
    /\ budget > 0
    /\ \E f \in FilesAt(avail) : IngestFile(f.path, f.content)

\* one ingest_file call on an empty collection, any file
InitIngest ==
    /\ store = <<>>
    /\ last = NoCall
    /\ avail = "any"
    /\ budget = 1
    /\ ChunkIdle
    /\ ApiIdle
    /\ UploadIdle
    /\ ChatIdle
    /\ PollIdle

SpecIngest == InitIngest /\ [][Ingest]_vars

\* several ingest_file calls on one collection
InitStore ==
    /\ store = <<>>
    /\ last = NoCall
    /\ avail = "few"
    /\ budget = MaxCalls
    /\ ChunkIdle
    /\ ApiIdle
    /\ UploadIdle
    /\ ChatIdle
    /\ PollIdle

SpecStore == InitStore /\ [][Ingest]_vars

----------------------------------------------------------------------------
(* Claims about the ingestion paths *)

\* the blocks of the latest call's content, and the first record of each
\* logical document group among the records it prepared
LastBlocks == SplitOn(last.content, SEP)

GroupHeads == SelectSeq(last.prepared, LAMBDA r : r.metadata.chunk_id = 0)

BundleCall == last.outcome # "none" /\ IsAwesome(last.content)

\* the 0-based positions of the blocks that are not empty after trimming,
\* and of those that hold a line break after trimming
NonBlankBlocks == {i \in 0..(Len(LastBlocks) - 1) : Strip(LastBlocks[i + 1]) # <<>>}

TwoLineBlocks ==
    {i \in 0..(Len(LastBlocks) - 1) : NL \in Range(Strip(LastBlocks[i + 1]))}

\* the j-th smallest member of a set of numbers
RECURSIVE Nth(_, _)
Nth(S, j) ==
    LET m == CHOOSE x \in S : \A y \in S : x <= y
    IN  IF j = 1 THEN m ELSE Nth(S \ {m}, j - 1)

\* C4 as stated: a bundle yields one logical document group for every block
\* that is not empty after trimming.
C4_GroupPerNonBlankBlock ==
    BundleCall => Len(GroupHeads) = Cardinality(NonBlankBlocks)

\* C4, amended: a bundle yields one logical document group, of at least one
\* chunk carrying the block's name, for every block that holds at least two
\* lines after trimming, in the order of the blocks, and none for the others.
C4_GroupPerTwoLineBlock ==
    BundleCall =>
        /\ Len(GroupHeads) = Cardinality(TwoLineBlocks)
        /\ \A j \in 1..Len(GroupHeads) :
              /\ GroupHeads[j].metadata.source =
                    FileName(Nth(TwoLineBlocks, j), LastBlocks[Nth(TwoLineBlocks, j) + 1])
              /\ GroupHeads[j].metadata.total_chunks >= 1

\* a bundle with an empty block, a block of one line and a block of two
\* lines, ingested
C4_Witness ==
    /\ BundleCall
    /\ TwoLineBlocks # {}
    /\ NonBlankBlocks \ TwoLineBlocks # {}
    /\ Cardinality(NonBlankBlocks) < Len(LastBlocks)
    /\ Len(GroupHeads) = 1
    /\ last.outcome = "returned"

\* the name C5 gives the block at position idx: what follows the prefix
\* FILE: on the first line, trimmed, or section_<idx>
ClaimedName(idx, block) ==
    LET first == Strip(SplitOn(Strip(block), NL)[1])
    IN  IF StartsWith(first, FILE) THEN Strip(Tail(first))
        ELSE <<"section", "_">> \o Str(idx)

\* C5: every processed block is named by the remainder of its first line
\* after the prefix FILE:, trimmed, later occurrences of FILE: kept, or
\* section_<i> with i its position in the raw split.
C5_NameIsRemainderOrSection ==
    BundleCall =>
        \A j \in 1..Len(GroupHeads) :
            j <= Cardinality(TwoLineBlocks) =>
                GroupHeads[j].metadata.source =
                    ClaimedName(Nth(TwoLineBlocks, j), LastBlocks[Nth(TwoLineBlocks, j) + 1])

\* C6: two chunks of one ingestion call that differ in source name or in
\* chunk index have different identifiers.
C6_IdsInjective ==
    \A a, b \in 1..Len(last.prepared) :
        (\/ last.prepared[a].metadata.source # last.prepared[b].metadata.source
         \/ last.prepared[a].metadata.chunk_id # last.prepared[b].metadata.chunk_id)
            => last.prepared[a].id # last.prepared[b].id

\* C7: ingesting the same file with the same content again, right after an
\* ingestion that returned, submits the same add calls and leaves the store
\* as it was.
C7_ReingestIdempotent ==
    [][(/\ budget' < budget
        /\ last.outcome = "returned" /\ last'.outcome = "returned"
        /\ last'.path = last.path /\ last'.content = last.content)
            => (last'.adds = last.adds /\ store' = store)]_vars

\* a file of several chunks has been ingested twice in a row
C7_Witness ==
    /\ budget <= MaxCalls - 2
    /\ last.outcome = "returned"
    /\ Len(last.prepared) >= 2
    /\ last.before = store
    /\ \A r \in Range(last.prepared) : r.id \in DOMAIN store

\* the ids of the stored records whose metadata names the source src
Siblings(src) == {j \in DOMAIN store : store[j].metadata.source = src}

\* C16: after any sequence of ingestions every stored record agrees with
\* the stored records of the same source: its total_chunks is their number
\* and their chunk_id values are exactly 0 .. total_chunks - 1.
C16_SiblingsConsistent ==
    \A i \in DOMAIN store :
        LET sib == Siblings(store[i].metadata.source)
        IN  /\ store[i].metadata.total_chunks = Cardinality(sib)
            /\ {store[j].metadata.chunk_id : j \in sib}
                   = 0..(Cardinality(sib) - 1)

\* the batch of the prepared records that C8 gives the j-th add call
ClaimedBatch(j) ==
    SubSeq(last.prepared, BatchSize * (j - 1) + 1,
           Min(BatchSize * j, Len(last.prepared)))

\* ceil(n / BatchSize)
ClaimedBatches(n) == (n + BatchSize - 1) \div BatchSize

\* C8: an ingestion call that prepares N chunks makes ceil(N / batch_size)
\* add calls, the j-th with the j-th batch_size records in order, none with
\* more than batch_size records, and returns N.
C8_AddsAreBatches ==
    last.outcome = "returned" =>
        /\ Len(last.adds) = ClaimedBatches(Len(last.prepared))
        /\ \A j \in 1..Len(last.adds) :
              /\ last.adds[j] = ClaimedBatch(j)
              /\ Len(last.adds[j]) <= BatchSize
        /\ last.returned = {Len(last.prepared)}

\* C9: when add call j of a bundle ingestion raises, the call raises and
\* returns nothing, exactly j add calls were made, and the store holds the
\* batches before j on top of what it held.
C9_FailedBatchKeepsEarlier ==
    (BundleCall /\ last.outcome = "raised") =>
        /\ last.returned = {}
        /\ Len(last.adds) = last.failed
        /\ \A j \in 1..Len(last.adds) : last.adds[j] = ClaimedBatch(j)
        /\ store = StoreAddAll(last.before,
                       [j \in 1..(last.failed - 1) |-> ClaimedBatch(j)])
        /\ \A j \in 1..(last.failed - 1) :
              \A r \in Range(ClaimedBatch(j)) : r.id \in DOMAIN store

\* the second of three batches raised
C9_Witness ==
    /\ BundleCall
    /\ last.outcome = "raised"
    /\ last.failed = 2
    /\ ClaimedBatches(Len(last.prepared)) = 3
    /\ store # <<>>

----------------------------------------------------------------------------
(* main.py: /extract-structured and /analyze-urls *)

\* requests one run of the server is followed through
MaxRequests == 2
\* URLs in one /analyze-urls request
MaxUrls == 22

\* the keys of SCHEMA_REGISTRY
SCHEMA_REGISTRY == {"recipe", "invoice", "feedback", "design_pattern", "pdf_summary"}

\* get_schema: the schema, or ValueError for a name outside the registry
get_schema(schema_type) ==
    IF schema_type \notin SCHEMA_REGISTRY
    THEN [raised |-> TRUE, exc |-> [type |-> "ValueError", status_code |-> 0]]
    ELSE [raised |-> FALSE, exc |-> [type |-> "none", status_code |-> 0]]

\* HTTPException(status_code=...)
HTTPException(status_code) == [type |-> "HTTPException", status_code |-> status_code]

\* bool(request.custom_schema): None and the empty dict are false
Truthy(custom_schema) == custom_schema = "dict"

\* the classes an `except Exception` clause catches: HTTPException is a
\* subclass of Exception, as ValueError and the engine's errors are
CaughtByExceptException(exc) ==
    exc.type \in {"HTTPException", "ValueError", "EngineError"}

\* the handlers' `except Exception as e: raise HTTPException(status_code=500)`
\* around a body that raised exc
OuterExcept(exc) ==
    IF CaughtByExceptException(exc) THEN HTTPException(500) ELSE exc

\* the most URLs /analyze-urls lets through
UrlLimit == 20

\* the body of extract_structured's outer try: what it raises (type "none"
\* when it returns) and whether it reached the engine
ExtractBody(schema_type, custom_schema, engine_raises) ==
    IF ~Truthy(custom_schema) /\ get_schema(schema_type).raised
    THEN [exc |-> HTTPException(400), engine |-> 0]
    ELSE IF engine_raises
    THEN [exc |-> [type |-> "EngineError", status_code |-> 0], engine |-> 1]
    ELSE [exc |-> [type |-> "none", status_code |-> 0], engine |-> 1]

\* the body of analyze_urls's try
UrlsBody(n_urls, engine_raises) ==
    IF n_urls > UrlLimit
    THEN [exc |-> HTTPException(400), engine |-> 0]
    ELSE IF engine_raises
    THEN [exc |-> [type |-> "EngineError", status_code |-> 0], engine |-> 1]
    ELSE [exc |-> [type |-> "none", status_code |-> 0], engine |-> 1]

\* the response FastAPI sends for a handler whose body ended as `body`
Respond(body) ==
    IF body.exc.type = "none" THEN [status |-> 200]
    ELSE [status |-> OuterExcept(body.exc).status_code]

\* POST /extract-structured
extract_structured ==
    /\ handled < MaxRequests
    /\ \E schema_type \in SCHEMA_REGISTRY \cup {"unknown"} :
       \E custom_schema \in {"None", "empty", "dict"} :
       \E engine_raises \in BOOLEAN :
          LET body == ExtractBody(schema_type, custom_schema, engine_raises)
          IN  /\ request' = [endpoint |-> "/extract-structured",
                             schema_type |-> schema_type,
                             custom_schema |-> custom_schema]
              /\ response' = Respond(body)
              /\ engine_calls' = engine_calls + body.engine
    /\ handled' = handled + 1
    /\ UNCHANGED chunkVars
    /\ UNCHANGED ingestVars
    /\ UNCHANGED uploadVars
    /\ UNCHANGED chatVars
    /\ UNCHANGED pollVars

\* POST /analyze-urls
analyze_urls ==
    /\ handled < MaxRequests
    /\ \E n_urls \in 0..MaxUrls :
       \E engine_raises \in BOOLEAN :
          LET body == UrlsBody(n_urls, engine_raises)
          IN  /\ request' = [endpoint |-> "/analyze-urls", n_urls |-> n_urls]
              /\ response' = Respond(body)
              /\ engine_calls' = engine_calls + body.engine
    /\ handled' = handled + 1
    /\ UNCHANGED chunkVars
    /\ UNCHANGED ingestVars
    /\ UNCHANGED uploadVars
    /\ UNCHANGED chatVars
    /\ UNCHANGED pollVars

InitApi ==
    /\ ApiIdle
    /\ ChunkIdle
    /\ IngestIdle
    /\ UploadIdle
    /\ ChatIdle
    /\ PollIdle

NextApi == extract_structured \/ analyze_urls

SpecApi == InitApi /\ [][NextApi]_vars

\* a request C10 calls an input error
InputError ==
    \/ /\ request.endpoint = "/extract-structured"
       /\ request.schema_type \notin SCHEMA_REGISTRY
       /\ request.custom_schema = "None"
    \/ /\ request.endpoint = "/analyze-urls"
       /\ request.n_urls > UrlLimit

\* C10: an unknown schema_type without custom_schema, and more than 20 URLs,
\* are each answered with status 400, without a call of the engine.
C10_InputErrorIs400 ==
    [][(handled' > handled /\ InputError')
          => (response'.status = 400 /\ engine_calls' = engine_calls)]_vars

----------------------------------------------------------------------------
(* POST /ingest-files.  The handlers are coroutines of one event loop: a   *)
(* handler runs without interruption from one await to the next, and the   *)
(* only await of ingest_files is `content = await file.read()`.            *)

CR == "\r"
\* a byte that no UTF-8 text holds
BAD == "0xff"

\* the universal-newlines translation of a file opened in text mode
RECURSIVE Newlines(_)
Newlines(b) ==
    IF b = <<>> THEN <<>>
    ELSE IF Head(b) # CR THEN <<Head(b)>> \o Newlines(Tail(b))
    ELSE IF Len(b) >= 2 /\ b[2] = NL THEN <<NL>> \o Newlines(SubSeq(b, 3, Len(b)))
    ELSE <<NL>> \o Newlines(Tail(b))

\* open(file_path, 'r', encoding='utf-8').read() on a file holding bytes
ReadText(bytes) ==
    IF BAD \in Range(bytes)
    THEN [raised |-> TRUE, content |-> <<>>]
    ELSE [raised |-> FALSE, content |-> Newlines(bytes)]

\* os.path.join(temp_dir, file.filename)
TempPath(filename) == <<"tmp", "/">> \o filename

\* d[key] = value
DictSet(d, key, value) ==
    [k \in (DOMAIN d) \cup {key} |-> IF k = key THEN value ELSE d[k]]

\* variant of WriteFile that opens the file for appending
WriteFile_append(fs, path, content) ==
    DictSet(fs, path, (IF path \in DOMAIN fs THEN fs[path] ELSE <<>>) \o content)

\* with open(temp_path, 'wb') as f: f.write(content)
WriteFile(fs, path, content) == DictSet(fs, path, content)

\* os.remove(temp_path)
RemoveFile(fs, path) == [p \in (DOMAIN fs) \ {path} |-> fs[p]]

\* the add calls engine.ingest_file(path) would make on the file system fs
PlannedFor(fs, path) ==
    LET read == ReadText(fs[path])
    IN  IF read.raised THEN <<>>
        ELSE PlannedAdds(read.content, Prepared(path, read.content))

\* engine.ingest_file(path) on the file system fs and the collection st, its
\* add call number failAt raising (none for 0): whether it raised, what it
\* returned and the collection after it
IngestCall(st, fs, path, failAt) ==
    LET read == ReadText(fs[path])
        prepared == Prepared(path, read.content)
        made == AddsMade(PlannedAdds(read.content, prepared), failAt)
    IN  IF read.raised
        THEN [raised |-> TRUE, error |-> "UnicodeDecodeError", count |-> 0, store |-> st]
        ELSE IF failAt # 0
        THEN [raised |-> TRUE, error |-> "add", count |-> 0,
              store |-> StoreAddAll(st, AddsLanded(made, failAt))]
        ELSE [raised |-> FALSE, error |-> "", count |-> Len(prepared),
              store |-> StoreAddAll(st, made)]

\* the values of the dict results
Count(n) == [error |-> "", count |-> n]
Error(e) == [error |-> e, count |-> 0]

\* the try statement for one file from the return of file.read() on:
\* file.read() raising when ~read_ok, else write, ingest, record, remove
FileBody(st, fs, file, read_ok, failAt) ==
    LET temp_path == TempPath(file.filename)
        written == WriteFile(fs, temp_path, file.content)
        call == IngestCall(st, written, temp_path, failAt)
    IN  IF ~read_ok
        THEN [value |-> Error("read"), store |-> st, fs |-> fs, read |-> <<>>]
        ELSE IF call.raised
        THEN [value |-> Error(call.error), store |-> call.store, fs |-> written,
              read |-> written[temp_path]]
        ELSE [value |-> Count(call.count), store |-> call.store,
              fs |-> RemoveFile(written, temp_path), read |-> written[temp_path]]

\* the handlers the model follows
Handlers == {"h1", "h2"}

\* a handler that has not been called
NoHandler == [files |-> <<>>, idx |-> 0, total_indexed |-> 0, results |-> <<>>,
              pc |-> "idle"]

\* the uploaded files: a text of several chunks, a short one and one that is
\* not UTF-8 under one name; a bundle of two batches and a text with
\* carriage returns under another
LongFile == [filename |-> <<"a", ".", "b">>, content |-> Repeat(CH, MaxDocLen)]
ShortFile == [filename |-> <<"a", ".", "b">>, content |-> Repeat(CH, 2)]
BadFile == [filename |-> <<"a", ".", "b">>, content |-> <<CH, BAD>>]
BundleFile ==
    [filename |-> <<"a", "_", "b">>,
     content |-> Join(<<<<>>, <<NL, FILE, SP, "a", NL, "x", NL>>,
                        <<NL, FILE, SP, "b", NL>> \o Repeat("x", ChunkSize + 2)>>, SEP)]
CrFile == [filename |-> <<"a", "_", "b">>, content |-> <<"x", CR, NL, "y", CR, "z">>]

\* the files of one request: one file, two names, one name twice
FileLists ==
    { <<LongFile>>,
      <<ShortFile, BundleFile>>,
      <<BadFile, ShortFile>>,
      <<LongFile, ShortFile>>,
      <<BundleFile, CrFile>> }

\* a request arrives: the handler runs up to its first `await file.read()`
ingest_files(h) ==
    /\ handlers[h].pc = "idle"
    /\ \E files \in FileLists :
          handlers' = [handlers EXCEPT ![h] =
                          [files |-> files, idx |-> 1, total_indexed |-> 0,
                           results |-> <<>>, pc |-> "await"]]
    /\ UNCHANGED <<temp_dir, ingested>>
    /\ UNCHANGED chunkVars
    /\ UNCHANGED ingestVars
    /\ UNCHANGED apiVars
    /\ UNCHANGED chatVars
    /\ UNCHANGED pollVars

\* file.read() returns or raises: the handler finishes the try statement of
\* the file and goes on to the next await, or returns
Resume(h) ==
    /\ handlers[h].pc = "await"
    /\ LET me == handlers[h]
           file == me.files[me.idx]
       IN  \E read_ok \in BOOLEAN :
           \E failAt \in 0..(IF read_ok
                             THEN Len(PlannedFor(WriteFile(temp_dir, TempPath(file.filename),
                                                           file.content),
                                                 TempPath(file.filename)))
                             ELSE 0) :
              LET body == FileBody(store, temp_dir, file, read_ok, failAt)
              IN  /\ store' = body.store
                  /\ temp_dir' = body.fs
                  /\ handlers' = [handlers EXCEPT ![h] =
                        [files |-> me.files,
                         idx |-> me.idx + 1,
                         total_indexed |-> me.total_indexed + body.value.count,
                         results |-> DictSet(me.results, file.filename, body.value),
                         pc |-> IF me.idx = Len(me.files) THEN "done" ELSE "await"]]
                  /\ ingested' = Append(ingested,
                        [handler |-> h, idx |-> me.idx, read_ok |-> read_ok,
                         failAt |-> failAt, read |-> body.read, value |-> body.value])
    /\ UNCHANGED <<last, avail, budget>>
    /\ UNCHANGED chunkVars
    /\ UNCHANGED apiVars
    /\ UNCHANGED chatVars
    /\ UNCHANGED pollVars

InitUpload ==
    /\ handlers = [h \in Handlers |-> NoHandler]
    /\ temp_dir = <<>>
    /\ ingested = <<>>
    /\ IngestIdle
    /\ ChunkIdle
    /\ ApiIdle
    /\ ChatIdle
    /\ PollIdle

NextUpload == \E h \in Handlers : ingest_files(h) \/ Resume(h)

SpecUpload == InitUpload /\ [][NextUpload]_vars

----------------------------------------------------------------------------
(* Claims about /ingest-files *)

\* what the history says of the files of handler h, in order
Attempts(h) == SelectSeq(ingested, LAMBDA e : e.handler = h)

RECURSIVE SumCounts(_)
SumCounts(att) ==
    IF att = <<>> THEN 0 ELSE Head(att).value.count + SumCounts(Tail(att))

\* C11: a handler that has returned has dealt with every uploaded file, in
\* order, a failure of one not stopping the later ones; details holds one
\* entry per uploaded file, the count or the error of that file under its
\* name; total_indexed is the sum of the counts of the files that succeeded.
C11_EveryFileReported ==
    \A h \in Handlers :
        handlers[h].pc = "done" =>
            LET me == handlers[h]
                att == Attempts(h)
            IN  /\ Len(att) = Len(me.files)
                /\ \A k \in 1..Len(att) : att[k].idx = k
                /\ Cardinality(DOMAIN me.results) = Len(me.files)
                /\ \A k \in 1..Len(att) :
                      /\ me.files[k].filename \in DOMAIN me.results
                      /\ me.results[me.files[k].filename] = att[k].value
                /\ me.total_indexed = SumCounts(att)

\* the collection after ingesting the files of the history log one after
\* the other, each from a file holding the bytes its request uploaded, with
\* the failures the history records
RECURSIVE Replay(_, _)
Replay(st, log) ==
    IF log = <<>> THEN st
    ELSE LET e == Head(log)
             file == handlers[e.handler].files[e.idx]
             path == TempPath(file.filename)
         IN  Replay(IF e.read_ok
                    THEN IngestCall(st, WriteFile(<<>>, path, file.content),
                                    path, e.failAt).store
                    ELSE st,
                    Tail(log))

\* C18: with handlers interleaving at their awaits only, every ingest_file
\* call reads exactly the bytes uploaded for its file, the collection is
\* the one a sequential ingestion of the files in the order of the history
\* gives, and a temp file that is left over belongs to an ingestion that
\* raised.
C18_IngestsOwnBytes ==
    /\ \A k \in 1..Len(ingested) :
          ingested[k].read_ok =>
              ingested[k].read
                  = handlers[ingested[k].handler].files[ingested[k].idx].content
    /\ store = Replay(<<>>, ingested)
    /\ \A p \in DOMAIN temp_dir :
          \E k \in 1..Len(ingested) :
              /\ TempPath(handlers[ingested[k].handler].files[ingested[k].idx].filename) = p
              /\ ingested[k].value.error # ""

\* both handlers have returned after taking turns, each with two files; two
\* files of different requests had the same name and different bytes, the
\* first of them failed in its second add call and the second succeeded
C18_Witness ==
    /\ \A h \in Handlers : handlers[h].pc = "done"
    /\ Len(ingested) = 4
    /\ ingested[1].handler # ingested[2].handler
    /\ ingested[2].handler # ingested[3].handler
    /\ \E j \in 1..Len(ingested) : \E k \in (j + 1)..Len(ingested) :
          LET f == handlers[ingested[j].handler].files[ingested[j].idx]
              g == handlers[ingested[k].handler].files[ingested[k].idx]
          IN  /\ ingested[j].handler # ingested[k].handler
              /\ f.filename = g.filename
              /\ f.content # g.content
              /\ ingested[j].failAt = 2
              /\ ingested[k].value.count > 0

----------------------------------------------------------------------------
(* DeepyEngine.chat: search, then generate_answer, then the formatting of   *)
(* the sources.  The collection and the LLM are external: query answers     *)
(* with a ranking of its own choice, and either call may raise.             *)

\* n_results of the search chat makes
ChatResults == 5

\* the default of .get('source', 'unknown')
Unknown == <<"unknown">>

\* d.get(key, default)
DictGet(d, key, default) == IF key \in DOMAIN d THEN d[key] ELSE default

\* what collection.query(n_results = n) may find in the collection st: the
\* ids of at most n records, none twice, most relevant first
Rankings(st, n) ==
    {r \in SeqsUpTo(DOMAIN st, Min(n, Cardinality(DOMAIN st))) :
        \A j, k \in 1..Len(r) : j # k => r[j] # r[k]}

\* the dict collection.query returns for the ranking ranked: one list of
\* documents and one of metadatas for the one query text
QueryResult(st, ranked) ==
    [documents |-> << [k \in 1..Len(ranked) |-> st[ranked[k]].document] >>,
     metadatas |-> << [k \in 1..Len(ranked) |-> st[ranked[k]].metadata] >>]

\* variant of SearchSources that lists the matches last to first
SearchSources_reversed(results) ==
    [i \in 1..Len(results.documents[1]) |->
        [content |-> results.documents[1][Len(results.documents[1]) + 1 - i],
         metadata |-> results.metadatas[1][Len(results.documents[1]) + 1 - i]]]

\* the loop of search over results['documents'][0]
SearchSources(results) ==
    [i \in 1..Len(results.documents[1]) |->
        [content |-> results.documents[1][i],
         metadata |-> results.metadatas[1][i]]]

\* sep.join(parts) for a separator of several characters
RECURSIVE JoinSeqs(_, _)
JoinSeqs(parts, sep) ==
    IF parts = <<>> THEN <<>>
    ELSE IF Len(parts) = 1 THEN parts[1]
    ELSE parts[1] \o sep \o JoinSeqs(Tail(parts), sep)

\* the context generate_answer builds from context_docs
ContextOf(context_docs) ==
    JoinSeqs([k \in 1..Len(context_docs) |->
                 <<"Source: ">>
                     \o DictGet(context_docs[k].metadata, "source", Unknown)
                     \o <<NL>> \o context_docs[k].content],
             <<NL, NL>>)

\* formatted_sources of chat
FormattedSources(srcs) ==
    [k \in 1..Len(srcs) |->
        [name |-> DictGet(srcs[k].metadata, "source", Unknown),
         content |-> srcs[k].content]]

\* records a collection may hold: chunks of one source, a record whose
\* metadata has no source, a chunk with a blank line in it
ChatPool ==
    << [id |-> <<"a", "_", "0">>, document |-> <<"x">>,
        metadata |-> [source |-> <<"a">>, chunk_id |-> 0, total_chunks |-> 2]],
       [id |-> <<"n", "_", "0">>, document |-> <<"z">>,
        metadata |-> [chunk_id |-> 0]],
       [id |-> <<"a", "_", "1">>, document |-> <<"y">>,
        metadata |-> [source |-> <<"a">>, chunk_id |-> 1, total_chunks |-> 2]],
       [id |-> <<"b", "_", "0">>, document |-> <<"x", NL, NL, "y">>,
        metadata |-> [source |-> <<"b">>, original_file |-> <<"a", ".", "b">>,
                      chunk_id |-> 0, total_chunks |-> 1]],
       [id |-> <<"c", "_", "0">>, document |-> <<"x">>,
        metadata |-> [source |-> <<"c">>, chunk_id |-> 0, total_chunks |-> 1]],
       [id |-> <<"d", "_", "0">>, document |-> <<"w">>,
        metadata |-> [source |-> <<"d">>, chunk_id |-> 0, total_chunks |-> 1]] >>

\* an external call as the history records it
Call(api, n_results, ranked, context, raised) ==
    [api |-> api, n_results |-> n_results, ranked |-> ranked,
     context |-> context, raised |-> raised]

\* sources = self.search(question, n_results=5)
chat_search ==
    /\ chat_pc = "search"
    /\ \E raised \in BOOLEAN :
       \E ranked \in Rankings(store, ChatResults) :
          /\ calls' = Append(calls, Call("query", ChatResults,
                                         IF raised THEN <<>> ELSE ranked, <<>>, raised))
          /\ sources' = IF raised THEN sources
                        ELSE SearchSources(QueryResult(store, ranked))
          /\ chat_pc' = IF raised THEN "raised" ELSE "generate"
    /\ UNCHANGED reply
    /\ UNCHANGED chunkVars
    /\ UNCHANGED ingestVars
    /\ UNCHANGED apiVars
    /\ UNCHANGED uploadVars
    /\ UNCHANGED pollVars

\* answer = self.generate_answer(question, sources)
chat_generate ==
    /\ chat_pc = "generate"
    /\ \E raised \in BOOLEAN :
          /\ calls' = Append(calls, Call("generate_content", 0, <<>>,
                                         ContextOf(sources), raised))
          /\ chat_pc' = IF raised THEN "raised" ELSE "format"
    /\ UNCHANGED <<sources, reply>>
    /\ UNCHANGED chunkVars
    /\ UNCHANGED ingestVars
    /\ UNCHANGED apiVars
    /\ UNCHANGED uploadVars
    /\ UNCHANGED pollVars

\* return {"answer": answer, "sources": formatted_sources}
chat_return ==
    /\ chat_pc = "format"
    /\ reply' = [answer |-> "response.text", sources |-> FormattedSources(sources)]
    /\ chat_pc' = "returned"
    /\ UNCHANGED <<calls, sources>>
    /\ UNCHANGED chunkVars
    /\ UNCHANGED ingestVars
    /\ UNCHANGED apiVars
    /\ UNCHANGED uploadVars
    /\ UNCHANGED pollVars

\* one chat call on a collection holding some of the records
InitChat ==
    /\ \E n \in 0..Len(ChatPool) : store = StoreAdd(<<>>, SubSeq(ChatPool, 1, n))
    /\ last = NoCall
    /\ avail = "none"
    /\ budget = 0
    /\ chat_pc = "search"
    /\ calls = <<>>
    /\ sources = <<>>
    /\ reply = [answer |-> "", sources |-> <<>>]
    /\ ChunkIdle
    /\ ApiIdle
    /\ UploadIdle
    /\ PollIdle

NextChat == chat_search \/ chat_generate \/ chat_return

SpecChat == InitChat /\ [][NextChat]_vars

----------------------------------------------------------------------------
(* Claims about chat *)

\* the name and the content chat must report for the stored record id
Reported(id) ==
    [name |-> IF "source" \in DOMAIN store[id].metadata
              THEN store[id].metadata.source ELSE <<"unknown">>,
     content |-> store[id].document]

\* the context lines of the stored record id
Lines(id) == <<"Source: ">> \o Reported(id).name \o <<NL>> \o Reported(id).content

RECURSIVE ClaimedContext(_)
ClaimedContext(ranked) ==
    IF ranked = <<>> THEN <<>>
    ELSE IF Len(ranked) = 1 THEN Lines(ranked[1])
    ELSE Lines(ranked[1]) \o <<NL, NL>> \o ClaimedContext(Tail(ranked))

\* C12: chat queries the collection once, with n_results = 5, and then calls
\* the LLM once; what it returns as sources are the matches of the query,
\* as many (at most 5) and in the same order, each with the name of its
\* metadata source ('unknown' without one) and its content; the context
\* given to the LLM lists the same chunks in the same order; with no match
\* the LLM is called with an empty context and chat returns no sources.
C12_ChatSearchesThenGenerates ==
    /\ Len(calls) <= 2
    /\ Len(calls) >= 1 => (calls[1].api = "query" /\ calls[1].n_results = 5)
    /\ Len(calls) = 2 => (calls[2].api = "generate_content" /\ ~calls[1].raised)
    /\ chat_pc \in {"format", "returned"} => (Len(calls) = 2 /\ ~calls[2].raised)
    /\ chat_pc = "raised" => calls[Len(calls)].raised
    /\ Len(calls) = 2 => calls[2].context = ClaimedContext(calls[1].ranked)
    /\ chat_pc = "returned" =>
          /\ Len(reply.sources) = Len(calls[1].ranked)
          /\ Len(reply.sources) <= 5
          /\ \A k \in 1..Len(reply.sources) :
                reply.sources[k] = Reported(calls[1].ranked[k])
          /\ calls[1].ranked = <<>> =>
                (calls[2].context = <<>> /\ reply.sources = <<>>)

\* chat has returned five sources from a collection of more records, one of
\* them without a source in its metadata and not the last
C12_Witness ==
    /\ chat_pc = "returned"
    /\ Cardinality(DOMAIN store) > 5
    /\ Len(reply.sources) = 5
    /\ \E k \in 1..4 : reply.sources[k].name = <<"unknown">>
    /\ reply.sources[1] # reply.sources[5]

\* chat has returned from a query without a match
C12_WitnessNoMatch ==
    /\ chat_pc = "returned"
    /\ calls[1].ranked = <<>>
    /\ reply.sources = <<>>

----------------------------------------------------------------------------
(* DeepyEngine.upload_to_file_search: start the upload, then poll the      *)
(* operation every two seconds until it reports done.  The operation runs  *)
(* at the external service, which completes it when it pleases, or never.  *)

\* polls the model counts; the loop goes on polling beyond them
MaxPolls == 5

\* variant of KeepsPolling that gives up after MaxPolls polls
KeepsPolling_capped(op, n) == ~op.done /\ n < MaxPolls

\* the loop condition: while not operation.done
KeepsPolling(op, n) == ~op.done

\* the operation object a call to the service returns while the operation
\* is in the state r there
Observe(r) == [name |-> "operations/1", done |-> (r = "done")]

\* config of the upload call for the argument display_name
ConfigOf(display_name) ==
    IF display_name \in {"None", ""} THEN "{}" ELSE "display_name"

\* the arguments and the environment of the calls the model follows
DisplayNames == {"None", "", "notes"}
Networks == {"up", "flaky"}

\* the external service completes the operation
Complete ==
    /\ remote = "pending"
    /\ poll_pc \in {"loop", "returned", "raised"}
    /\ remote' = "done"
    /\ UNCHANGED <<poll_pc, operation, polls, network, upload_config, upload_result>>
    /\ UNCHANGED chunkVars
    /\ UNCHANGED ingestVars
    /\ UNCHANGED apiVars
    /\ UNCHANGED uploadVars
    /\ UNCHANGED chatVars

\* operation = self.client.file_search_stores.upload_to_file_search_store(...)
upload_to_file_search ==
    /\ poll_pc = "upload"
    /\ \E display_name \in DisplayNames :
       \E raised \in {FALSE, network = "flaky"} :
       \E r \in {"pending", "done"} :
          /\ upload_config' = ConfigOf(display_name)
          /\ remote' = IF raised THEN remote ELSE r
          /\ operation' = IF raised THEN operation ELSE Observe(r)
          /\ poll_pc' = IF raised THEN "raised" ELSE "loop"
    /\ UNCHANGED <<polls, network, upload_result>>
    /\ UNCHANGED chunkVars
    /\ UNCHANGED ingestVars
    /\ UNCHANGED apiVars
    /\ UNCHANGED uploadVars
    /\ UNCHANGED chatVars

\* one iteration: time.sleep(2); operation = self.client.operations.get(operation)
Poll ==
    /\ poll_pc = "loop"
    /\ KeepsPolling(operation, polls)
    /\ \E raised \in {FALSE, network = "flaky"} :
          /\ operation' = IF raised THEN operation ELSE Observe(remote)
          /\ poll_pc' = IF raised THEN "raised" ELSE "loop"
    /\ polls' = Min(polls + 1, MaxPolls)
    /\ UNCHANGED <<remote, network, upload_config, upload_result>>
    /\ UNCHANGED chunkVars
    /\ UNCHANGED ingestVars
    /\ UNCHANGED apiVars
    /\ UNCHANGED uploadVars
    /\ UNCHANGED chatVars

\* the loop condition fails: return {"status": "completed", ...}
UploadReturn ==
    /\ poll_pc = "loop"
    /\ ~KeepsPolling(operation, polls)
    /\ upload_result' = [status |-> "completed", operation_name |-> operation.name]
    /\ poll_pc' = "returned"
    /\ UNCHANGED <<operation, polls, remote, network, upload_config>>
    /\ UNCHANGED chunkVars
    /\ UNCHANGED ingestVars
    /\ UNCHANGED apiVars
    /\ UNCHANGED uploadVars
    /\ UNCHANGED chatVars

InitPoll ==
    /\ poll_pc = "upload"
    /\ operation = [name |-> "", done |-> FALSE]
    /\ polls = 0
    /\ remote = "pending"
    /\ network \in Networks
    /\ upload_config = "{}"
    /\ upload_result = [status |-> "", operation_name |-> ""]
    /\ ChunkIdle
    /\ IngestIdle
    /\ ApiIdle
    /\ UploadIdle
    /\ ChatIdle

NextPoll == Complete \/ upload_to_file_search \/ Poll \/ UploadReturn

\* the call keeps running: a step of it that can be taken is taken.  The
\* service is under no obligation to complete the operation.
SpecPoll ==
    /\ InitPoll
    /\ [][NextPoll]_vars
    /\ WF_vars(upload_to_file_search)
    /\ WF_vars(Poll)
    /\ WF_vars(UploadReturn)

----------------------------------------------------------------------------
(* Claims about upload_to_file_search *)

\* the call returns "completed" only with an operation it has seen done,
\* which the service has then completed, and it raises only when a call to
\* the service raised
ReturnsOnlyWhenDone ==
    /\ poll_pc = "returned" =>
          /\ operation.done
          /\ remote = "done"
          /\ upload_result.status = "completed"
    /\ poll_pc = "raised" => network = "flaky"
    /\ (poll_pc = "loop" /\ ~operation.done) => ENABLED Poll

\* C15: the call returns "completed" only after it has seen the operation
\* done, and polls without a cap: once the operation is completed at the
\* service and its calls are answered the call returns, and as long as the
\* operation is not completed the call neither returns nor gives up of its
\* own.
C15_ReturnsIffDone ==
    /\ []ReturnsOnlyWhenDone
    /\ (remote = "done" /\ network = "up") ~> (poll_pc = "returned")
    /\ [](remote = "pending") => [](poll_pc \notin {"returned"})
    /\ ([](remote = "pending") /\ [](network = "up"))
          => <>[](poll_pc = "loop" /\ polls = MaxPolls)

\* the call has returned after polling several times, the first polls
\* having seen the operation not done
C15_Witness ==
    /\ poll_pc = "returned"
    /\ polls >= 3
    /\ polls < MaxPolls
    /\ operation.done

====
